---- MODULE Spec2Model ----
(***************************************************************************)
(* Model of the notifications building block: the core services            *)
(* (core/services.go), the User registry record (core/model/user.go) and   *)
(* the Message record, with the Durable Store and the Push Gateway as the  *)
(* two collaborators the core calls.                                       *)
(*                                                                         *)
(* Every operation is a step for each blocking call it makes to the store  *)
(* or the gateway, so that the calls of two request handlers interleave.   *)
(*                                                                         *)
(* Spec        the subscription synchronizer: two request handlers running *)
(*             subscribeToTopic / unsubscribeToTopic concurrently, and     *)
(*             storeFirebaseToken; any caller, any outcome of the          *)
(*             collaborators' calls.                                       *)
(* SpecDevice  the synchronizer's runs of anonymous devices and one        *)
(*             authenticated identity, any outcome.                        *)
(* SpecMirror  the synchronizer's runs in which every caller is            *)
(*             authenticated and every collaborator's call succeeds, with  *)
(*             the run's history recorded.                                 *)
(* SpecHeal    the synchronizer's runs of one authenticated identity with  *)
(*             two devices, any outcome, with the drift left by failed     *)
(*             gateway subscribes recorded.                                *)
(* SpecMsg     the message fan-out engine: createMessage calls of two      *)
(*             handlers, a token registration and deleteMessage in between.*)
(* SpecUpd     a message created, edited by two handlers and deleted.      *)
(* SpecUser    the methods of user.go on one User record.                  *)
(* SpecRetry   a createMessage call, retried by its caller after an error, *)
(*             deleteMessage in between.                                   *)
(* SpecAccess  HasUser, the GetMessage handler, deleteUserMessage,         *)
(*             updateMessage and deleteMessage on one stored message.      *)
(* SpecRest    the Subscribe and Unsubscribe request handlers of two       *)
(*             handlers, each running its core call step by step, and      *)
(*             token registrations.                                        *)
(***************************************************************************)
EXTENDS Integers, Sequences, FiniteSets, TLC

VARIABLES
    users,      \* Durable Store: the User record of every identity
    devices,    \* Durable Store: the tokens registered without identity
    gateway,    \* Push Gateway: the set of <<token, topic>> subscriptions
    pc,         \* per request handler: "idle", "sub_gw" or "unsub_gw"
    call,       \* per request handler: the core call it is in the middle of
    ret,        \* the core call of the synchronizer that returned last
    hist,       \* history of a recorded run: overlaps, and who used which token
    nops,       \* number of core operations started
    nmsg,       \* number of message operations started
    nupd,       \* number of updateMessage operations started
    messages,   \* Durable Store: the persisted messages, in insertion order
    last,       \* the message operation that returned last: inputs, calls made, result
    work,       \* per request handler: the message operation it is in the middle of
    urec,       \* a User record in memory, as the methods of user.go change it
    applied,    \* the last method of user.go applied to urec, and urec before it
    nuser,      \* number of methods of user.go applied to urec
    reply       \* the last read, removal or request answered: inputs, calls, answer

vars == <<users, devices, gateway, pc, call, ret, hist, nops, nmsg, nupd, messages, last,
          work, urec, applied, nuser, reply>>

syncVars == <<users, devices, gateway, pc, call, ret, hist>>
msgVars == <<nmsg, nupd, messages, last, work>>
userVars == <<urec, applied, nuser>>

----------------------------------------------------------------------------
(* Bounds and input domains *)

MaxOps == 3
MaxMsgOps == 2
MaxUpdOps == 2
MaxUserOps == 5
MaxRetries == 1

Procs == {"h1", "h2"}
Identities == {"a@x.edu", "b@x.edu"}
DeviceTokens == {"t1", "t2"}
Tokens == {""} \cup DeviceTokens
Topics == {"sports", "news"}

----------------------------------------------------------------------------
(* Go values *)

\* error: nil or an error value
NilErr == "nil"
StoreErr == "store error"
GatewayErr == "gateway error"

\* []string: a nil slice or a slice with elements
NilSlice == [isNil |-> TRUE, elems |-> <<>>]
Slice(s) == [isNil |-> FALSE, elems |-> s]

Contains(s, x) == \E i \in 1..Len(s) : s[i] = x

RECURSIVE Without(_, _)
Without(s, x) ==
    IF s = <<>> THEN <<>>
    ELSE IF Head(s) # x THEN <<Head(s)>> \o Without(Tail(s), x)
         ELSE Without(Tail(s), x)

\* *string: nil, or the address of a string and the string there
NilStr == [isNil |-> TRUE, addr |-> "-", val |-> ""]
StrPtr(a, v) == [isNil |-> FALSE, addr |-> a, val |-> v]

\* *model.ShibbolethUser: nil, or the authenticated identity of the request
NilUser == [isNil |-> TRUE, Uin |-> NilStr, Email |-> NilStr, Phone |-> NilStr,
            Membership |-> NilSlice]
ShibbolethUser(e) ==
    [isNil |-> FALSE,
     Uin |-> StrPtr("req.uin", "uin:" \o e),
     Email |-> StrPtr("req.email", e),
     Phone |-> StrPtr("req.phone", "tel:" \o e),
     Membership |-> Slice(<<"staff">>)]

Callers == {NilUser} \cup {ShibbolethUser(e) : e \in Identities}

----------------------------------------------------------------------------
(* The Message record *)

\* *model.Sender: nil, or the fingerprint of the originator
NilSender == [isNil |-> TRUE, Type |-> "", User |-> NilUser]
Sender(type, user) == [isNil |-> FALSE, Type |-> type, User |-> user]

\* model.Recipient
Recipient(e) == [UserID |-> StrPtr("body.user_id", e), Name |-> NilStr]

\* *model.Message: nil, or a message (Priority, Data and the dates are left out)
NilMessage == [isNil |-> TRUE, ID |-> NilStr, Recipients |-> <<>>, Topic |-> NilStr,
               Subject |-> "", Body |-> "", Sender |-> NilSender]
Message(id, recipients, topic, sender) ==
    [isNil |-> FALSE, ID |-> id, Recipients |-> recipients, Topic |-> topic,
     Subject |-> "subject", Body |-> "body", Sender |-> sender]

\* the createMessage calls of a run: the system and an identity, on a draft
\* with no audience, with a topic, with recipients, with both, with an id,
\* with a sender of its own
Creations ==
    LET sports == StrPtr("body.topic", "sports")
        both == <<Recipient("a@x.edu"), Recipient("b@x.edu")>>
        forged == Sender("user", ShibbolethUser("forged@x.edu"))
    IN  {[user |-> NilUser, message |-> m] :
            m \in {Message(NilStr, <<>>, NilStr, NilSender),
                   Message(NilStr, <<>>, sports, NilSender),
                   Message(NilStr, both, NilStr, NilSender),
                   Message(NilStr, <<Recipient("b@x.edu")>>, sports, NilSender)}}
        \cup {[user |-> ShibbolethUser("a@x.edu"), message |-> m] :
                m \in {Message(NilStr, <<>>, NilStr, forged),
                       Message(NilStr, <<>>, sports, NilSender),
                       Message(StrPtr("body.id", "m0"), both, sports, NilSender)}}

\* what reply holds before any call
NoReply ==
    [op |-> "none", version |-> "", user |-> NilUser, token |-> NilStr, topic |-> NilStr,
     id |-> "", message |-> NilMessage, has |-> FALSE, status |-> "",
     content |-> NilMessage, log |-> <<>>, err |-> NilErr]

----------------------------------------------------------------------------
(* core/model/user.go *)

\* a User record; one the store has not created yet has exists = FALSE
NoRecord == [exists |-> FALSE, Tokens |-> NilSlice, Topics |-> NilSlice]
User == [exists |-> TRUE, Tokens |-> NilSlice, Topics |-> NilSlice]

AddTokenAppendsAlways(t, token) ==
    [t EXCEPT !.Tokens = Slice(Append(IF t.Tokens.isNil THEN <<>> ELSE t.Tokens.elems, token))]

AddTokenReplaces(t, token) == [t EXCEPT !.Tokens = Slice(<<token>>)]

AddToken(t, token) ==
    LET cur == IF t.Tokens.isNil THEN <<>> ELSE t.Tokens.elems
        exists == Contains(cur, token)
    IN  [t EXCEPT !.Tokens = Slice(IF ~exists THEN Append(cur, token) ELSE cur)]

RemoveTokenClears(t, token) ==
    IF ~t.Tokens.isNil THEN [t EXCEPT !.Tokens = Slice(<<>>)] ELSE t

RemoveToken(t, token) ==
    IF ~t.Tokens.isNil
    THEN [t EXCEPT !.Tokens = Slice(Without(t.Tokens.elems, token))]
    ELSE t

AddTopicAppendsAlways(t, topic) ==
    [t EXCEPT !.Topics = Slice(Append(IF t.Topics.isNil THEN <<>> ELSE t.Topics.elems, topic))]

AddTopic(t, topic) ==
    LET cur == IF t.Topics.isNil THEN <<>> ELSE t.Topics.elems
        exists == Contains(cur, topic)
    IN  [t EXCEPT !.Topics = Slice(IF ~exists THEN Append(cur, topic) ELSE cur)]

RemoveTopic(t, topic) ==
    IF ~t.Topics.isNil
    THEN [t EXCEPT !.Topics = Slice(Without(t.Topics.elems, topic))]
    ELSE t

\* A User record in memory and the methods called on it, one call a step
RegistryTokens == DeviceTokens \cup {"t3"}

NoMethod == [method |-> "none", arg |-> "", before |-> User]

Applied(method, arg, after) ==
    /\ nuser < MaxUserOps
    /\ nuser' = nuser + 1
    /\ applied' = [method |-> method, arg |-> arg, before |-> urec]
    /\ urec' = after
    /\ UNCHANGED <<syncVars, nops, msgVars, reply>>

CallAddToken == \E token \in RegistryTokens : Applied("AddToken", token, AddToken(urec, token))
CallRemoveToken ==
    \E token \in RegistryTokens : Applied("RemoveToken", token, RemoveToken(urec, token))
CallAddTopic == \E topic \in Topics : Applied("AddTopic", topic, AddTopic(urec, topic))
CallRemoveTopic == \E topic \in Topics : Applied("RemoveTopic", topic, RemoveTopic(urec, topic))

----------------------------------------------------------------------------
(* The Durable Store's registry and the Push Gateway's subscription table *)

\* storage.SubscribeToTopic: look up or create the identity's User record,
\* add the token and the topic to it, as one atomic update
StorageSubscribeToTopic(us, token, email, topic) ==
    LET rec == IF us[email].exists THEN us[email] ELSE User
    IN  [us EXCEPT ![email] = AddTopic(AddToken(rec, token), topic)]

\* storage.UnsubscribeToTopic: remove the token and the topic from the
\* identity's User record, as one atomic update; nothing to remove is a no-op
StorageUnsubscribeToTopic(us, token, email, topic) ==
    IF us[email].exists
    THEN [us EXCEPT ![email] = RemoveTopic(RemoveToken(us[email], token), topic)]
    ELSE us

\* storage.StoreFirebaseToken(token, userID): look up or create the User
\* record of the identity with this id and add the token to it; the tokens it
\* holds and the topics are left alone
StorageStoreFirebaseToken(us, token, userID) ==
    LET rec == IF us[userID].exists THEN us[userID] ELSE User
    IN  [us EXCEPT ![userID] = AddToken(rec, token)]

\* storage.StoreFirebaseToken(token, nil): the registration of a device
\* without identity keeps a registry of its own for the raw token
StorageStoreDeviceToken(ds, token) == ds \cup {token}

\* firebase.SubscribeToTopic
FirebaseSubscribeToTopic(gw, token, topic) == gw \cup {<<token, topic>>}

\* firebase.UnsubscribeToTopic
FirebaseUnsubscribeToTopic(gw, token, topic) == gw \ {<<token, topic>>}

----------------------------------------------------------------------------
(* A core call of the synchronizer, as a request handler holds it *)

\* one call made to a collaborator: which function, its arguments, its outcome
Made(fn, token, topic, ok) == [fn |-> fn, token |-> token, topic |-> topic, ok |-> ok]

\* the request a core call is made for: none when the core is called
\* directly, or a Subscribe or Unsubscribe request, with the token and the
\* topic it carried and the status its handler wrote before the call
Direct == [op |-> "none", version |-> "", token |-> NilStr, topic |-> NilStr, status |-> ""]

Request(op, version, token, topic, status) ==
    [op |-> op, version |-> version, token |-> token, topic |-> topic, status |-> status]

NoCall == [op |-> "none", token |-> "", user |-> NilUser, topic |-> "",
           log |-> <<>>, err |-> NilErr, from |-> Direct]

Begin(op, token, user, topic, from) ==
    [op |-> op, token |-> token, user |-> user, topic |-> topic,
     log |-> <<>>, err |-> NilErr, from |-> from]

Logged(c, m) == [c EXCEPT !.log = Append(c.log, m)]

StatusOK == "200 OK"
StatusBadRequest == "400 Bad Request"
StatusNotFound == "404 Not Found"
StatusInternalServerError == "500 Internal Server Error"

\* the status of the response once the core call has returned err: "if err
\* != nil" Internal Server Error, else OK; a status written before stays
Status(written, err) ==
    IF written # "" THEN written
    ELSE IF err # NilErr THEN StatusInternalServerError
    ELSE StatusOK

\* the answer of the handler whose core call c has returned err
Answered(c, err) ==
    [NoReply EXCEPT !.op = c.from.op, !.version = c.from.version, !.user = c.user,
                    !.token = c.from.token, !.topic = c.from.topic,
                    !.status = Status(c.from.status, err), !.log = c.log]

\* handler p's call c returns err; a request handler answers
Return(p, c, err) ==
    /\ ret' = [c EXCEPT !.err = err]
    /\ call' = [call EXCEPT ![p] = NoCall]
    /\ pc' = [pc EXCEPT ![p] = "idle"]
    /\ reply' = IF c.from = Direct THEN reply ELSE Answered(c, err)

\* handler p's call c has made its store call and goes on to the gateway
Continue(p, c, at) ==
    /\ call' = [call EXCEPT ![p] = c]
    /\ pc' = [pc EXCEPT ![p] = at]
    /\ ret' = ret
    /\ reply' = reply

InFlight == {p \in Procs : pc[p] # "idle"}

\* The runs of the synchronizer a specification looks at: the callers, the
\* outcomes a collaborator's call may have, whether history is recorded, and
\* whether the history tells who used which token.
AnyRun == [callers |-> Callers, outcomes |-> BOOLEAN, recorded |-> FALSE, paired |-> FALSE]
MirrorRun == [callers |-> Callers \ {NilUser}, outcomes |-> {TRUE}, recorded |-> TRUE,
              paired |-> TRUE]
HealRun == [callers |-> {ShibbolethUser("a@x.edu")}, outcomes |-> BOOLEAN,
            recorded |-> TRUE, paired |-> FALSE]

DeviceRun == [callers |-> {NilUser, ShibbolethUser("a@x.edu")}, outcomes |-> BOOLEAN,
              recorded |-> FALSE, paired |-> FALSE]

RestRun == [callers |-> {NilUser, ShibbolethUser("a@x.edu")}, outcomes |-> BOOLEAN,
            recorded |-> FALSE, paired |-> FALSE]

SecondDeviceRun == [callers |-> {ShibbolethUser("a@x.edu")}, outcomes |-> {TRUE},
                    recorded |-> FALSE, paired |-> FALSE]

\* the history once a call with these arguments starts
Started(run, token, user) ==
    IF run.recorded
    THEN [overlap |-> hist.overlap \/ InFlight # {},
          pairs |-> IF run.paired THEN hist.pairs \cup {<<user.Email.val, token>>}
                    ELSE hist.pairs,
          drift |-> hist.drift,
          registered |-> hist.registered]
    ELSE hist

\* the identity a call knows by its id only, none when the id is nil
KnownByID(userID) ==
    IF userID.isNil
    THEN NilUser
    ELSE [isNil |-> FALSE, Uin |-> NilStr, Email |-> userID, Phone |-> NilStr,
          Membership |-> NilSlice]

\* the history once a registration with these arguments is made
Registering(run, token, userID) ==
    IF run.recorded
    THEN [Started(run, token, KnownByID(userID)) EXCEPT !.registered = TRUE]
    ELSE hist

\* the history once the gateway subscribe of call c has returned: a failed
\* one left the store ahead of the gateway for c's identity, token and topic
Drifted(run, c, ok) ==
    IF run.recorded /\ ~ok
    THEN [hist EXCEPT !.drift = @ \cup {<<c.user.Email.val, c.token, c.topic>>}]
    ELSE hist

----------------------------------------------------------------------------
(* core/services.go: subscribeToTopic and unsubscribeToTopic *)

\* the error a collaborator's call returns
ErrOf(ok, failure) == IF ok THEN NilErr ELSE failure

\* "var err error": the zero value, returned when no branch assigns it
ErrZeroValue == NilErr

\* "if user != nil"
HasIdentity(user) == ~user.isNil

IsAnonymousDeviceInverted(token) == token = ""

\* "else if token != """: the request of an anonymous device
IsAnonymousDevice(token) == token # ""

SubscribeCallsGatewayAlways(err) == TRUE

SubscribeCallsGatewayNever(err) == FALSE

\* subscribeToTopic's "if err == nil" after the store call: only then is the
\* gateway called
SubscribeCallsGateway(err) == err = NilErr

SubscribeSwallows(gwErr) == NilErr

\* subscribeToTopic's "return err" once the gateway call has returned gwErr
SubscribeReturns(gwErr) == gwErr

UnsubscribeCallsGatewayNever(err) == FALSE

UnsubscribeCallsGatewayAlways(err) == TRUE

\* unsubscribeToTopic's "if err == nil" after the store call
UnsubscribeCallsGateway(err) == err = NilErr

\* unsubscribeToTopic's "return err" once the gateway call has returned gwErr
UnsubscribeReturns(gwErr) == gwErr

\* subscribeToTopic up to its first call's return: the store call of an
\* authenticated identity, the one gateway call of an anonymous device, or
\* neither
subscribeToTopic(p, token, user, topic, from, run) ==
    /\ pc[p] = "idle"
    /\ nops < MaxOps
    /\ nops' = nops + 1
    /\ hist' = Started(run, token, user)
    /\ LET c == Begin("subscribe", token, user, topic, from)
       IN  IF HasIdentity(user)
           THEN \E ok \in run.outcomes :
                  LET err == ErrOf(ok, StoreErr)
                      c1 == Logged(c, Made("storage.SubscribeToTopic", token, topic, ok))
                  IN  /\ users' = IF ok
                                  THEN StorageSubscribeToTopic(users, token, user.Email.val, topic)
                                  ELSE users
                      /\ IF SubscribeCallsGateway(err)
                         THEN Continue(p, c1, "sub_gw")
                         ELSE Return(p, c1, err)
                      /\ UNCHANGED gateway
           ELSE IF IsAnonymousDevice(token)
           THEN \E ok \in run.outcomes :
                  /\ gateway' = IF ok THEN FirebaseSubscribeToTopic(gateway, token, topic)
                                ELSE gateway
                  /\ Return(p, Logged(c, Made("firebase.SubscribeToTopic", token, topic, ok)),
                            SubscribeReturns(ErrOf(ok, GatewayErr)))
                  /\ UNCHANGED users
           ELSE /\ Return(p, c, ErrZeroValue)
                /\ UNCHANGED <<users, gateway>>
    /\ UNCHANGED <<devices, msgVars, userVars>>

\* the gateway call of an authenticated subscribeToTopic, and its return
subscribeGateway(p, run) ==
    /\ pc[p] = "sub_gw"
    /\ \E ok \in run.outcomes :
         LET c == call[p]
         IN  /\ gateway' = IF ok THEN FirebaseSubscribeToTopic(gateway, c.token, c.topic)
                           ELSE gateway
             /\ Return(p, Logged(c, Made("firebase.SubscribeToTopic", c.token, c.topic, ok)),
                       SubscribeReturns(ErrOf(ok, GatewayErr)))
             /\ hist' = Drifted(run, c, ok)
    /\ UNCHANGED <<users, devices, nops>>
    /\ UNCHANGED <<msgVars, userVars>>

\* unsubscribeToTopic up to its first call's return
unsubscribeToTopic(p, token, user, topic, from, run) ==
    /\ pc[p] = "idle"
    /\ nops < MaxOps
    /\ nops' = nops + 1
    /\ hist' = Started(run, token, user)
    /\ LET c == Begin("unsubscribe", token, user, topic, from)
       IN  IF HasIdentity(user)
           THEN \E ok \in run.outcomes :
                  LET err == ErrOf(ok, StoreErr)
                      c1 == Logged(c, Made("storage.UnsubscribeToTopic", token, topic, ok))
                  IN  /\ users' = IF ok
                                  THEN StorageUnsubscribeToTopic(users, token, user.Email.val, topic)
                                  ELSE users
                      /\ IF UnsubscribeCallsGateway(err)
                         THEN Continue(p, c1, "unsub_gw")
                         ELSE Return(p, c1, err)
                      /\ UNCHANGED gateway
           ELSE IF IsAnonymousDevice(token)
           THEN \E ok \in run.outcomes :
                  /\ gateway' = IF ok THEN FirebaseUnsubscribeToTopic(gateway, token, topic)
                                ELSE gateway
                  /\ Return(p, Logged(c, Made("firebase.UnsubscribeToTopic", token, topic, ok)),
                            UnsubscribeReturns(ErrOf(ok, GatewayErr)))
                  /\ UNCHANGED users
           ELSE /\ Return(p, c, ErrZeroValue)
                /\ UNCHANGED <<users, gateway>>
    /\ UNCHANGED <<devices, msgVars, userVars>>

\* the gateway call of an authenticated unsubscribeToTopic, and its return
unsubscribeGateway(p, run) ==
    /\ pc[p] = "unsub_gw"
    /\ \E ok \in run.outcomes :
         LET c == call[p]
         IN  /\ gateway' = IF ok THEN FirebaseUnsubscribeToTopic(gateway, c.token, c.topic)
                           ELSE gateway
             /\ Return(p, Logged(c, Made("firebase.UnsubscribeToTopic", c.token, c.topic, ok)),
                       UnsubscribeReturns(ErrOf(ok, GatewayErr)))
    /\ UNCHANGED <<users, devices, hist, nops>>
    /\ UNCHANGED <<msgVars, userVars>>

\* storeFirebaseToken(token, userID): "return
\* app.storage.StoreFirebaseToken(token, userID)", the one store call of the
\* registration of a device token, made by a request of its own while the
\* handlers are where they are, whether userID is nil or not; the gateway is
\* not called
storeFirebaseToken(token, userID, run) ==
    /\ nops < MaxOps
    /\ nops' = nops + 1
    /\ hist' = Registering(run, token, userID)
    /\ \E ok \in run.outcomes :
         /\ users' = IF ok /\ ~userID.isNil
                     THEN StorageStoreFirebaseToken(users, token, userID.val)
                     ELSE users
         /\ devices' = IF ok /\ userID.isNil
                       THEN StorageStoreDeviceToken(devices, token)
                       ELSE devices
         /\ ret' = [Logged(Begin("storeFirebaseToken", token, KnownByID(userID), "", Direct),
                           Made("storage.StoreFirebaseToken", token, "-", ok))
                      EXCEPT !.err = ErrOf(ok, StoreErr)]
    /\ UNCHANGED <<gateway, pc, call>>
    /\ UNCHANGED <<msgVars, userVars, reply>>

----------------------------------------------------------------------------
(* The Durable Store's messages and token resolution, the registries a run
   of the fan-out engine starts from *)

InsertErr == "insert error"
ResolveErr == "resolve error"
BroadcastErr == "broadcast error"
SendErr == "send error"
AlreadySentErr == "message with id is already sent"

NewID(n) == StrPtr("store.id", "m" \o ToString(n))

\* storage.CreateMessage: assigns the id, one the store has not given
\* before, and appends the message; the persisted message and the error it
\* returns
StorageCreateMessage(msgs, message, id, ok) ==
    IF ok
    THEN LET persisted == [message EXCEPT !.ID = id]
         IN  [stored |-> Append(msgs, persisted), persisted |-> persisted, err |-> NilErr]
    ELSE [stored |-> msgs, persisted |-> NilMessage, err |-> InsertErr]

\* storage.GetFirebaseTokensByRecipients: the current tokens of every
\* recipient, recipient by recipient; a recipient without record or token
\* yields none
RECURSIVE StorageGetFirebaseTokensByRecipients(_, _)
StorageGetFirebaseTokensByRecipients(us, recipients) ==
    IF recipients = <<>> THEN <<>>
    ELSE LET e == Head(recipients).UserID.val
             own == IF e \in DOMAIN us /\ us[e].exists /\ ~us[e].Tokens.isNil
                    THEN us[e].Tokens.elems ELSE <<>>
         IN  own \o StorageGetFirebaseTokensByRecipients(us, Tail(recipients))

RECURSIVE Registered(_, _)
Registered(t, tokens) ==
    IF tokens = <<>> THEN t ELSE Registered(AddToken(t, Head(tokens)), Tail(tokens))

\* the registry a run starts from: a@x.edu has one device, b@x.edu has no
\* record
Registries ==
    {[e \in Identities |-> IF e = "a@x.edu" THEN Registered(User, <<"t1">>)
                           ELSE NoRecord]}

----------------------------------------------------------------------------
(* core/services.go: createMessage, a step for each call it makes to the
   store and to the gateway *)

RejectsDraftInverted(message) == message.ID.isNil

\* "if message.ID != nil"
RejectsDraft(message) == ~message.ID.isNil

PersistWithRetry(msgs, draft, o) ==
    LET first == StorageCreateMessage(msgs, draft, o.id, o.insert)
        made == Made("storage.CreateMessage", "-", "-", o.insert)
    IN  IF o.insert THEN [ins |-> first, log |-> <<made>>]
        ELSE [ins |-> StorageCreateMessage(msgs, draft, o.id, o.insert),
              log |-> <<made, made>>]

PersistOncePerDraft(msgs, draft, o) ==
    LET same == {i \in 1..Len(msgs) : [msgs[i] EXCEPT !.ID = NilStr] = draft}
    IN  [ins |-> IF o.insert /\ same # {}
                 THEN [stored |-> msgs, persisted |-> msgs[CHOOSE i \in same : TRUE],
                       err |-> NilErr]
                 ELSE StorageCreateMessage(msgs, draft, o.id, o.insert),
         log |-> <<Made("storage.CreateMessage", "-", "-", o.insert)>>]

\* "persistedMessage, err = app.storage.CreateMessage(message)": the one
\* insert of a call
Persist(msgs, draft, o) ==
    [ins |-> StorageCreateMessage(msgs, draft, o.id, o.insert),
     log |-> <<Made("storage.CreateMessage", "-", "-", o.insert)>>]

StampAlwaysSystem(user) == Sender("system", NilUser)

\* the sender createMessage stamps on the draft
Stamp(user) ==
    IF ~user.isNil
    THEN Sender("user", [isNil |-> FALSE, Uin |-> user.Uin, Email |-> user.Email,
                         Phone |-> user.Phone, Membership |-> NilSlice])
    ELSE Sender("system", NilUser)

NextTokenUnlessSendFailed(rest, sendErr) ==
    IF sendErr = NilErr THEN Tail(rest) ELSE <<>>

\* "for _, token := range tokens": the tokens still to send to once a send
\* has returned sendErr, which is printed and nothing else
NextToken(rest, sendErr) == Tail(rest)

\* "if err != nil { return nil, err }; return persistedMessage, err"
Finish(persisted, err) ==
    IF err # NilErr THEN [result |-> NilMessage, err |-> err]
    ELSE [result |-> persisted, err |-> err]

ErrAfterBroadcastKept(err, broadcastErr) == err

\* err after "err = app.firebase.SendNotificationToTopic(...)"
ErrAfterBroadcast(err, broadcastErr) == broadcastErr

HasRecipientsUnlessTopic(message) == Len(message.Recipients) > 0 /\ message.Topic.isNil

\* "if len(message.Recipients) > 0"
HasRecipients(message) == Len(message.Recipients) > 0

HasTopicAlways(message) == TRUE

\* "else if message.Topic != nil"
HasTopic(message) == ~message.Topic.isNil

\* what last holds before any message operation has returned
NoMessageCall ==
    [op |-> "none", user |-> NilUser, message |-> NilMessage, draft |-> NilMessage,
     log |-> <<>>, tokens |-> <<>>, persisted |-> NilMessage, result |-> NilMessage,
     err |-> NilErr]

\* a handler that is in no message operation; in one, "at" is the call it
\* makes next, draft the message as the operation has left it, persisted and
\* err the operation's variables, tokens the resolved tokens and rest the
\* ones still to send to
NoWork ==
    [at |-> "idle", op |-> "none", user |-> NilUser, message |-> NilMessage,
     draft |-> NilMessage, log |-> <<>>, tokens |-> <<>>, rest |-> <<>>,
     persisted |-> NilMessage, err |-> NilErr]

\* handler p's message operation w returns result and err
Returned(p, w, result, err) ==
    /\ last' = [op |-> w.op, user |-> w.user, message |-> w.message, draft |-> w.draft,
                log |-> w.log, tokens |-> w.tokens, persisted |-> w.persisted,
                result |-> result, err |-> err]
    /\ work' = [work EXCEPT ![p] = NoWork]

\* handler p's message operation w goes on to the call "at"
GoesOn(p, w, at) ==
    /\ work' = [work EXCEPT ![p] = [w EXCEPT !.at = at]]
    /\ last' = last

\* createMessage up to the return of its insert: the id check, the sender
\* stamped, the store's CreateMessage, and where it goes on
createMessageInsert(p, user, message) ==
    /\ work[p].at = "idle"
    /\ nmsg' = nmsg + 1
    /\ LET w == [NoWork EXCEPT !.op = "createMessage", !.user = user,
                               !.message = message, !.draft = message]
       IN  IF RejectsDraft(message)
           THEN /\ Returned(p, w, NilMessage, AlreadySentErr)
                /\ messages' = messages
           ELSE \E ok \in BOOLEAN :
                  LET draft == [message EXCEPT !.Sender = Stamp(user)]
                      done == Persist(messages, draft,
                                      [insert |-> ok, id |-> NewID(nmsg + 1)])
                      w1 == [w EXCEPT !.draft = draft, !.log = done.log,
                                      !.persisted = done.ins.persisted,
                                      !.err = done.ins.err]
                  IN  /\ messages' = done.ins.stored
                      /\ IF HasRecipients(draft) THEN GoesOn(p, w1, "resolve")
                         ELSE IF HasTopic(draft) THEN GoesOn(p, w1, "broadcast")
                         ELSE Returned(p, w1, Finish(w1.persisted, w1.err).result,
                                       Finish(w1.persisted, w1.err).err)
    /\ UNCHANGED <<syncVars, nops, nupd, userVars, reply>>

createMessage(p, user, message) ==
    /\ nmsg < MaxMsgOps
    /\ createMessageInsert(p, user, message)

\* the caller of a createMessage that returned an error calls it again with
\* the same identity and the same draft
retryCreateMessage(p) ==
    /\ last.op = "createMessage"
    /\ last.err # NilErr
    /\ nmsg < MaxMsgOps + MaxRetries
    /\ createMessageInsert(p, last.user, last.message)

\* the store's GetFirebaseTokensByRecipients of a createMessage with
\* recipients: the tokens the recipients have when it is made
createMessageResolve(p) ==
    /\ work[p].at = "resolve"
    /\ \E ok \in BOOLEAN :
         LET w == work[p]
             w1 == [w EXCEPT !.log = Append(@, Made("storage.GetFirebaseTokensByRecipients",
                                                    "-", "-", ok))]
             tokens == StorageGetFirebaseTokensByRecipients(users, w.draft.Recipients)
         IN  IF ~ok THEN Returned(p, w1, NilMessage, ResolveErr)
             ELSE IF Len(tokens) > 0
             THEN GoesOn(p, [w1 EXCEPT !.tokens = tokens, !.rest = tokens], "send")
             ELSE Returned(p, w1, Finish(w.persisted, w.err).result,
                           Finish(w.persisted, w.err).err)
    /\ UNCHANGED <<syncVars, nops, nmsg, nupd, messages, userVars, reply>>

\* one pass of the for loop: the gateway's SendNotificationToToken for the
\* next resolved token
createMessageSend(p) ==
    /\ work[p].at = "send"
    /\ \E ok \in BOOLEAN :
         LET w == work[p]
             w1 == [w EXCEPT !.log = Append(@, Made("firebase.SendNotificationToToken",
                                                    Head(w.rest), "-", ok)),
                             !.rest = NextToken(w.rest, ErrOf(ok, SendErr))]
         IN  IF w1.rest # <<>> THEN GoesOn(p, w1, "send")
             ELSE Returned(p, w1, Finish(w.persisted, w.err).result,
                           Finish(w.persisted, w.err).err)
    /\ UNCHANGED <<syncVars, nops, nmsg, nupd, messages, userVars, reply>>

\* the gateway's SendNotificationToTopic of a createMessage with a topic and
\* no recipients
createMessageBroadcast(p) ==
    /\ work[p].at = "broadcast"
    /\ \E ok \in BOOLEAN :
         LET w == work[p]
             w1 == [w EXCEPT !.log = Append(@, Made("firebase.SendNotificationToTopic",
                                                    "-", w.draft.Topic.val, ok))]
             err == ErrAfterBroadcast(w.err, ErrOf(ok, BroadcastErr))
         IN  Returned(p, w1, Finish(w.persisted, err).result, Finish(w.persisted, err).err)
    /\ UNCHANGED <<syncVars, nops, nmsg, nupd, messages, userVars, reply>>

----------------------------------------------------------------------------
(* core/services.go: updateMessage, with the store's GetMessage and
   UpdateMessage *)

GetErr == "get error"
UpdateErr == "update error"
ErrNotCreator == "only creator can update the original message"
ErrMissing == "missing id or record"

\* a nil pointer dereference: the call does not return
Panic == "panic: nil pointer dereference"

\* an identity whose token carries no email
UinOnlyUser(uin) ==
    [isNil |-> FALSE, Uin |-> StrPtr("req.uin", uin), Email |-> NilStr, Phone |-> NilStr,
     Membership |-> NilSlice]

\* a pointer read back from the store points at the decoded copy
DecodedPtr(ptr, at) == IF ptr.isNil THEN ptr ELSE [ptr EXCEPT !.addr = at]

DecodedUser(user) ==
    IF user.isNil THEN user
    ELSE [user EXCEPT !.Uin = DecodedPtr(@, "db.sender.uin"),
                      !.Email = DecodedPtr(@, "db.sender.email"),
                      !.Phone = DecodedPtr(@, "db.sender.phone")]

DecodedMessage(m) ==
    [m EXCEPT !.ID = DecodedPtr(@, "db.id"),
              !.Topic = DecodedPtr(@, "db.topic"),
              !.Sender = IF @.isNil THEN @ ELSE [@ EXCEPT !.User = DecodedUser(@)],
              !.Recipients = [i \in 1..Len(@) |->
                                 [@[i] EXCEPT !.UserID = DecodedPtr(@, "db.user_id")]]]

HasID(msgs, id) == \E i \in 1..Len(msgs) : msgs[i].ID.val = id
IndexOf(msgs, id) == CHOOSE i \in 1..Len(msgs) : msgs[i].ID.val = id

\* storage.GetMessage: a copy of the record with this id; without such a
\* record no message, with or without an error
StorageGetMessage(msgs, id, ok) ==
    IF ~ok THEN [message |-> NilMessage, err |-> GetErr]
    ELSE IF HasID(msgs, id)
    THEN [message |-> DecodedMessage(msgs[IndexOf(msgs, id)]), err |-> NilErr]
    ELSE [message |-> NilMessage, err |-> NilErr]

\* storage.UpdateMessage: replaces the fields of the record with the
\* message's id, its id and sender kept; the updated message and the error
StorageUpdateMessage(msgs, message, ok) ==
    IF ok /\ HasID(msgs, message.ID.val)
    THEN LET i == IndexOf(msgs, message.ID.val)
             updated == [message EXCEPT !.ID = msgs[i].ID, !.Sender = msgs[i].Sender]
         IN  [stored |-> [msgs EXCEPT ![i] = updated], result |-> updated, err |-> NilErr]
    ELSE [stored |-> msgs, result |-> NilMessage, err |-> UpdateErr]

PtrEqByValue(a, b) ==
    IF a.isNil \/ b.isNil THEN a.isNil /\ b.isNil ELSE a.val = b.val

\* "==" on two *string: the same address, or both nil
PtrEq(a, b) ==
    IF a.isNil \/ b.isNil THEN a.isNil /\ b.isNil ELSE a.addr = b.addr

FetchedIgnoresAbsence(got) == got.err = NilErr

\* "if err == nil && persistedMessage != nil"
Fetched(got) == got.err = NilErr /\ ~got.message.isNil

ReplaceAndBroadcast(msgs, message, o) ==
    LET upd == StorageUpdateMessage(msgs, message, o.update)
    IN  [stored |-> upd.stored, result |-> upd.result, err |-> upd.err,
         log |-> <<Made("storage.UpdateMessage", "-", "-", o.update),
                   Made("firebase.SendNotificationToTopic", "-", "-", TRUE)>>]

\* "return app.storage.UpdateMessage(message)"
Replace(msgs, message, o) ==
    LET upd == StorageUpdateMessage(msgs, message, o.update)
    IN  [stored |-> upd.stored, result |-> upd.result, err |-> upd.err,
         log |-> <<Made("storage.UpdateMessage", "-", "-", o.update)>>]

\* updateMessage between the return of the store's GetMessage and the
\* store's UpdateMessage: the error it returns, the panic of a nil
\* dereference, or no error when it goes on to the store's UpdateMessage
Refusal(user, got) ==
    IF ~Fetched(got) THEN ErrMissing
    ELSE IF got.message.Sender.isNil THEN Panic
    ELSE IF got.message.Sender.User.isNil THEN ErrNotCreator
    ELSE IF user.isNil THEN Panic
    ELSE IF PtrEq(got.message.Sender.User.Email, user.Email) THEN NilErr
    ELSE ErrNotCreator

\* updateMessage up to the creator check: the store's GetMessage, and the
\* check on the copy it returned
updateMessage(p, user, message) ==
    /\ work[p].at = "idle"
    /\ nupd < MaxUpdOps
    /\ nupd' = nupd + 1
    /\ LET w == [NoWork EXCEPT !.op = "updateMessage", !.user = user,
                               !.message = message, !.draft = message]
       IN  IF message.ID.isNil THEN Returned(p, w, NilMessage, ErrMissing)
           ELSE \E ok \in BOOLEAN :
                  LET got == StorageGetMessage(messages, message.ID.val, ok)
                      w1 == [w EXCEPT !.log = <<Made("storage.GetMessage", "-", "-", ok)>>,
                                      !.persisted = got.message]
                  IN  IF Refusal(user, got) = NilErr THEN GoesOn(p, w1, "update")
                      ELSE Returned(p, w1, NilMessage, Refusal(user, got))
    /\ UNCHANGED <<syncVars, nops, nmsg, messages, userVars, reply>>

\* the store's UpdateMessage of an updateMessage that passed the creator
\* check, on the store as it is by then
updateMessageReplace(p) ==
    /\ work[p].at = "update"
    /\ \E ok \in BOOLEAN :
         LET w == work[p]
             done == Replace(messages, w.message, [update |-> ok])
         IN  /\ messages' = done.stored
             /\ Returned(p, [w EXCEPT !.log = @ \o done.log], done.result, done.err)
    /\ UNCHANGED <<syncVars, nops, nmsg, nupd, userVars, reply>>

\* the identities that send and edit messages: the system (no identity), two
\* identities with an email, two whose token carries no email
Editors ==
    {NilUser, ShibbolethUser("a@x.edu"), ShibbolethUser("b@x.edu"),
     UinOnlyUser("uin1"), UinOnlyUser("uin2")}

\* the callers of the reads and of the plain sends: the system, an identity
\* with an email and one whose token carries no email
Authors == {NilUser, ShibbolethUser("a@x.edu"), UinOnlyUser("uin1")}

\* the callers of the sends that are retried
Retriers == {NilUser, ShibbolethUser("a@x.edu")}

\* the edits a request body can hold
Edits ==
    {[Message(id, recipients, NilStr, NilSender) EXCEPT !.Subject = "edited"] :
        id \in {NilStr, StrPtr("body.id", "m1"), StrPtr("body.id", "m9")},
        recipients \in {<<>>, <<Recipient("b@x.edu")>>}}

----------------------------------------------------------------------------
(* core/model: Message.HasUser; core/services.go: getMessage and
   deleteUserMessage, and the GetMessage request handler *)

NotFoundErr == "not found"
DeleteErr == "delete error"

\* Message.HasUser: the answer, or the panic of "m.Sender.User" on a message
\* without sender
HasUser(m, user) ==
    IF user.isNil THEN [has |-> FALSE, err |-> NilErr]
    ELSE IF \E i \in 1..Len(m.Recipients) : PtrEq(m.Recipients[i].UserID, user.Email)
    THEN [has |-> TRUE, err |-> NilErr]
    ELSE IF m.Sender.isNil THEN [has |-> FALSE, err |-> Panic]
    ELSE IF ~m.Sender.User.isNil /\ PtrEq(user.Email, m.Sender.User.Email)
    THEN [has |-> TRUE, err |-> NilErr]
    ELSE [has |-> FALSE, err |-> NilErr]

\* a call of HasUser on a message read from the store
hasUser(m, user) ==
    /\ reply' = [NoReply EXCEPT !.op = "HasUser", !.user = user, !.message = m,
                                !.has = HasUser(m, user).has, !.err = HasUser(m, user).err]
    /\ UNCHANGED <<syncVars, nops, msgVars, userVars>>

\* "message == nil || !message.HasUser(user)", negated
Visible(message, user) ==
    IF message.isNil THEN [has |-> FALSE, err |-> NilErr] ELSE HasUser(message, user)

\* ApisHandler.GetMessage: the status and the content written, the calls made
GetMessageResponse(user, id, msgs, o) ==
    IF id = ""
    THEN [status |-> StatusBadRequest, content |-> NilMessage, log |-> <<>>,
          message |-> NilMessage, has |-> FALSE, err |-> NilErr]
    ELSE
    LET got == StorageGetMessage(msgs, id, o.get)
        seen == Visible(got.message, user)
        base == [log |-> <<Made("storage.GetMessage", "-", "-", o.get)>>,
                 message |-> got.message, has |-> seen.has, content |-> NilMessage,
                 err |-> NilErr]
    IN  IF got.err # NilErr
        THEN [base EXCEPT !.has = FALSE] @@ [status |-> StatusInternalServerError]
        ELSE IF seen.err = Panic THEN [base EXCEPT !.err = Panic] @@ [status |-> ""]
        ELSE IF ~seen.has THEN base @@ [status |-> StatusNotFound]
        ELSE IF ~o.marshal THEN base @@ [status |-> StatusInternalServerError]
        ELSE [base EXCEPT !.content = got.message] @@ [status |-> StatusOK]

GetMessage(user, id, o) ==
    /\ LET r == GetMessageResponse(user, id, messages, o)
       IN  reply' = [NoReply EXCEPT !.op = "GetMessage", !.user = user, !.id = id,
                                    !.message = r.message, !.has = r.has,
                                    !.status = r.status, !.content = r.content,
                                    !.log = r.log, !.err = r.err]
    /\ UNCHANGED <<syncVars, nops, msgVars, userVars>>

\* storage.DeleteUserMessage: removes the identity from the recipients of
\* the message with this id; the message stays
StorageDeleteUserMessage(msgs, email, id, ok) ==
    IF ~ok THEN [stored |-> msgs, err |-> DeleteErr]
    ELSE IF ~HasID(msgs, id) THEN [stored |-> msgs, err |-> NotFoundErr]
    ELSE LET i == IndexOf(msgs, id)
             Stays(recipient) == recipient.UserID.isNil \/ recipient.UserID.val # email
         IN  [stored |-> [msgs EXCEPT ![i].Recipients = SelectSeq(@, Stays)],
              err |-> NilErr]

\* deleteUserMessage: "*user.Email" is evaluated before the store is called
DeleteUserMessageResult(user, messageID, msgs, o) ==
    IF user.isNil \/ user.Email.isNil
    THEN [stored |-> msgs, log |-> <<>>, err |-> Panic]
    ELSE LET del == StorageDeleteUserMessage(msgs, user.Email.val, messageID, o.delete)
         IN  [stored |-> del.stored,
              log |-> <<Made("storage.DeleteUserMessage", "-", "-", o.delete)>>,
              err |-> del.err]

deleteUserMessage(user, messageID, o) ==
    /\ LET r == DeleteUserMessageResult(user, messageID, messages, o)
       IN  /\ messages' = r.stored
           /\ reply' = [NoReply EXCEPT !.op = "deleteUserMessage", !.user = user,
                                       !.id = messageID, !.log = r.log, !.err = r.err]
    /\ UNCHANGED <<syncVars, nops, nmsg, nupd, last, work, userVars>>

\* storage.DeleteMessage: removes the record with this id from the store
StorageDeleteMessage(msgs, id, ok) ==
    IF ~ok THEN [stored |-> msgs, err |-> DeleteErr]
    ELSE IF ~HasID(msgs, id) THEN [stored |-> msgs, err |-> NotFoundErr]
    ELSE LET Stays(m) == m.ID.val # id
         IN  [stored |-> SelectSeq(msgs, Stays), err |-> NilErr]

\* deleteMessage: the one store call of the administrative deletion
deleteMessage(ID, o) ==
    /\ LET del == StorageDeleteMessage(messages, ID, o.delete)
       IN  /\ messages' = del.stored
           /\ reply' = [NoReply EXCEPT !.op = "deleteMessage", !.id = ID,
                                       !.log = <<Made("storage.DeleteMessage", "-", "-",
                                                      o.delete)>>,
                                       !.err = del.err]
    /\ UNCHANGED <<syncVars, nops, nmsg, nupd, last, work, userVars>>

----------------------------------------------------------------------------
(* core/services.go: the Subscribe and Unsubscribe request handlers, of the
   body {token, topic} and of the path /topic/{topic} with body {token}; the
   core call of a request runs as the core's steps, and the handler answers
   when it returns *)

\* a handler that dereferenced a nil field of the body: what it had written
\* by then, no core call
Crashed(written) == [calls |-> FALSE, status |-> written, err |-> Panic]

\* a handler that answered Bad Request and returned
Refused == [calls |-> FALSE, status |-> StatusBadRequest, err |-> NilErr]

\* a handler that goes on to the core call, with what it has written
Calls(written) == [calls |-> TRUE, status |-> written, err |-> NilErr]

\* "if len(*body.Token) == 0 || len(*body.Topic) == 0": Bad Request is
\* written, the handler goes on
MissingTokenOrTopic(token, topic) == token.val = "" \/ topic.val = ""

\* the dereferences of the body's fields in the test and in the core call
BodyDereferenceFails(token, topic) == token.isNil \/ topic.isNil

\* ApisHandler.Subscribe and ApisHandler.Unsubscribe of the body
\* {token, topic}, up to the core call
BodyRequest(token, topic) ==
    IF token.isNil THEN Crashed("")
    ELSE IF BodyDereferenceFails(token, topic)
    THEN Crashed(IF token.val = "" THEN StatusBadRequest ELSE "")
    ELSE Calls(IF MissingTokenOrTopic(token, topic) THEN StatusBadRequest ELSE "")

\* ApisHandler.Subscribe and ApisHandler.Unsubscribe of the path
\* /topic/{topic}, up to the core call
PathRequest(token, topic) ==
    IF topic.val = "" THEN Refused
    ELSE IF token.isNil THEN Crashed("")
    ELSE IF token.val = "" THEN Refused
    ELSE Calls("")

\* a request answered, or its handler crashed, before any core call
Handled(op, version, user, token, topic, r) ==
    /\ nops < MaxOps
    /\ nops' = nops + 1
    /\ reply' = [NoReply EXCEPT !.op = op, !.version = version, !.user = user,
                                !.token = token, !.topic = topic, !.status = r.status,
                                !.err = r.err]
    /\ UNCHANGED <<syncVars, msgVars, userVars>>

\* ApisHandler.Subscribe of the body {token, topic}, up to the return of the
\* core's first call
SubscribeBody(p, user, token, topic, run) ==
    LET r == BodyRequest(token, topic)
    IN  IF r.calls
        THEN subscribeToTopic(p, token.val, user, topic.val,
                              Request("Subscribe", "body", token, topic, r.status), run)
        ELSE Handled("Subscribe", "body", user, token, topic, r)

\* ApisHandler.Unsubscribe of the body {token, topic}
UnsubscribeBody(p, user, token, topic, run) ==
    LET r == BodyRequest(token, topic)
    IN  IF r.calls
        THEN unsubscribeToTopic(p, token.val, user, topic.val,
                                Request("Unsubscribe", "body", token, topic, r.status), run)
        ELSE Handled("Unsubscribe", "body", user, token, topic, r)

\* ApisHandler.Subscribe of the path /topic/{topic}/subscribe
SubscribePath(p, user, token, topic, run) ==
    LET r == PathRequest(token, topic)
    IN  IF r.calls
        THEN subscribeToTopic(p, token.val, user, topic.val,
                              Request("Subscribe", "path", token, topic, r.status), run)
        ELSE Handled("Subscribe", "path", user, token, topic, r)

\* ApisHandler.Unsubscribe of the path /topic/{topic}/unsubscribe
UnsubscribePath(p, user, token, topic, run) ==
    LET r == PathRequest(token, topic)
    IN  IF r.calls
        THEN unsubscribeToTopic(p, token.val, user, topic.val,
                                Request("Unsubscribe", "path", token, topic, r.status), run)
        ELSE Handled("Unsubscribe", "path", user, token, topic, r)

----------------------------------------------------------------------------
(* Specifications *)

NoHistory == [overlap |-> FALSE, pairs |-> {}, drift |-> {}, registered |-> FALSE]

Init ==
    /\ users = [e \in Identities |-> NoRecord]
    /\ devices = {}
    /\ gateway = {}
    /\ pc = [p \in Procs |-> "idle"]
    /\ call = [p \in Procs |-> NoCall]
    /\ ret = NoCall
    /\ hist = NoHistory
    /\ nops = 0
    /\ nmsg = 0
    /\ nupd = 0
    /\ messages = <<>>
    /\ last = NoMessageCall
    /\ work = [p \in Procs |-> NoWork]
    /\ urec = User
    /\ applied = NoMethod
    /\ nuser = 0
    /\ reply = NoReply

\* the tokens a request carries: an authenticated request a device token, a
\* request without identity a device token or none
TokensOf(user) == IF user.isNil THEN Tokens ELSE DeviceTokens

Subscribe(run) ==
    \E p \in Procs, user \in run.callers, topic \in Topics :
      \E token \in TokensOf(user) :
        subscribeToTopic(p, token, user, topic, Direct, run)

SubscribeGateway(run) == \E p \in Procs : subscribeGateway(p, run)

Unsubscribe(run) ==
    \E p \in Procs, user \in run.callers, topic \in Topics :
      \E token \in TokensOf(user) :
        unsubscribeToTopic(p, token, user, topic, Direct, run)

UnsubscribeGateway(run) == \E p \in Procs : unsubscribeGateway(p, run)

StoreFirebaseToken(run) ==
    \E user \in run.callers, token \in DeviceTokens :
        storeFirebaseToken(token, user.Email, run)

Next ==
    \/ Subscribe(AnyRun)
    \/ SubscribeGateway(AnyRun)
    \/ Unsubscribe(AnyRun)
    \/ UnsubscribeGateway(AnyRun)
    \/ StoreFirebaseToken(AnyRun)

Spec == Init /\ [][Next]_vars

NextMirror ==
    \/ Subscribe(MirrorRun)
    \/ SubscribeGateway(MirrorRun)
    \/ Unsubscribe(MirrorRun)
    \/ UnsubscribeGateway(MirrorRun)
    \/ StoreFirebaseToken(MirrorRun)

SpecMirror == Init /\ [][NextMirror]_vars

\* the synchronizer's runs of one authenticated identity with two devices,
\* any outcome of the collaborators' calls, with the run's history recorded
NextHeal ==
    \/ Subscribe(HealRun)
    \/ SubscribeGateway(HealRun)
    \/ Unsubscribe(HealRun)
    \/ UnsubscribeGateway(HealRun)
    \/ StoreFirebaseToken(HealRun)

SpecHeal == Init /\ [][NextHeal]_vars

\* the synchronizer's runs of anonymous devices and one authenticated
\* identity, any outcome of the collaborators' calls
NextDevice ==
    \/ Subscribe(DeviceRun)
    \/ SubscribeGateway(DeviceRun)
    \/ Unsubscribe(DeviceRun)
    \/ UnsubscribeGateway(DeviceRun)
    \/ StoreFirebaseToken(DeviceRun)

SpecDevice == Init /\ [][NextDevice]_vars

InitMsg ==
    /\ users \in Registries
    /\ devices = {}
    /\ gateway = {}
    /\ pc = [p \in Procs |-> "idle"]
    /\ call = [p \in Procs |-> NoCall]
    /\ ret = NoCall
    /\ hist = NoHistory
    /\ nops = 0
    /\ nmsg = 0
    /\ nupd = 0
    /\ messages = <<>>
    /\ last = NoMessageCall
    /\ work = [p \in Procs |-> NoWork]
    /\ urec = User
    /\ applied = NoMethod
    /\ nuser = 0
    /\ reply = NoReply

CreateMessage ==
    \E p \in Procs, c \in Creations : createMessage(p, c.user, c.message)

CreateMessageResolve == \E p \in Procs : createMessageResolve(p)

CreateMessageSend == \E p \in Procs : createMessageSend(p)

CreateMessageBroadcast == \E p \in Procs : createMessageBroadcast(p)

\* the registration of a second device token of a recipient, once, while
\* messages are created
RegisterSecond ==
    \E user \in SecondDeviceRun.callers :
        /\ nops = 0
        /\ storeFirebaseToken("t2", user.Email, SecondDeviceRun)

\* the administrative deletion of the first message of the store
DeleteMessage == deleteMessage("m1", [delete |-> TRUE])

\* createMessage calls of two handlers, a token registration and administrative
\* deletions in between
NextMsg ==
    \/ CreateMessage
    \/ CreateMessageResolve
    \/ CreateMessageSend
    \/ CreateMessageBroadcast
    \/ RegisterSecond
    \/ DeleteMessage

SpecMsg == InitMsg /\ [][NextMsg]_vars

\* the drafts of the calls that are retried: one to a topic, one to the
\* identity with a device
RetryDrafts ==
    {Message(NilStr, <<>>, StrPtr("body.topic", "sports"), NilSender),
     Message(NilStr, <<Recipient("a@x.edu")>>, NilStr, NilSender)}

CreateRetried ==
    \E p \in Procs, user \in Retriers, message \in RetryDrafts :
        nmsg = 0 /\ createMessage(p, user, message)

RetryCreateMessage == \E p \in Procs : retryCreateMessage(p)

\* a createMessage call and the calls its caller makes again after an error,
\* administrative deletions in between
NextRetry ==
    \/ CreateRetried
    \/ RetryCreateMessage
    \/ CreateMessageResolve
    \/ CreateMessageSend
    \/ CreateMessageBroadcast
    \/ DeleteMessage

SpecRetry == InitMsg /\ [][NextRetry]_vars

\* the message createMessage persists in an empty store for this sender and
\* these recipients
StoredBy(user, recipients) ==
    Persist(<<>>, [Message(NilStr, recipients, NilStr, NilSender) EXCEPT !.Sender = Stamp(user)],
            [insert |-> TRUE, id |-> NewID(1)]).ins.persisted

\* recipient lists of the stored messages; the last one has an entry whose
\* body gave no user_id
StoredLists ==
    {<<>>, <<Recipient("b@x.edu")>>, <<[UserID |-> NilStr, Name |-> NilStr]>>}

\* the stores the reads start from: one message, sent by the system, by
\* a@x.edu or by an identity without email, or a record written without
\* sender (the field is omitempty)
Stores ==
    {<<StoredBy(user, recipients)>> :
        user \in Authors,
        recipients \in StoredLists}
    \cup {<<[StoredBy(NilUser, recipients) EXCEPT !.Sender = NilSender]>> :
            recipients \in StoredLists}

InitAccess ==
    /\ users = [e \in Identities |-> NoRecord]
    /\ devices = {}
    /\ gateway = {}
    /\ pc = [p \in Procs |-> "idle"]
    /\ call = [p \in Procs |-> NoCall]
    /\ ret = NoCall
    /\ hist = NoHistory
    /\ nops = 0
    /\ nmsg = 0
    /\ nupd = 0
    /\ messages \in Stores
    /\ last = NoMessageCall
    /\ work = [p \in Procs |-> NoWork]
    /\ urec = User
    /\ applied = NoMethod
    /\ nuser = 0
    /\ reply = NoReply

HasUserCall ==
    \E user \in Editors, i \in 1..Len(messages) :
        hasUser(DecodedMessage(messages[i]), user)

GetMessageRequest ==
    \E user \in Editors, id \in {"", "m1", "m9"} :
        \E o \in [get : IF id = "" THEN {TRUE} ELSE BOOLEAN,
                   marshal : IF id = "m1" THEN BOOLEAN ELSE {TRUE}] :
            GetMessage(user, id, o)

DeleteUserMessageCall ==
    \E user \in Editors, id \in {"m1", "m9"} :
        \E o \in [delete : BOOLEAN] : deleteUserMessage(user, id, o)

\* the edit of the stored message: its id, a new subject and no recipient
StoredEdits == {e \in Edits : e.ID.val = "m1" /\ e.Recipients = <<>>}

UpdateStoredMessage ==
    \E p \in Procs, user \in Authors,
       message \in StoredEdits :
        updateMessage(p, user, message)

UpdateMessageReplace == \E p \in Procs : updateMessageReplace(p)

\* reads, removals, updates and the deletion of one stored message
NextAccess ==
    \/ HasUserCall
    \/ GetMessageRequest
    \/ DeleteUserMessageCall
    \/ UpdateStoredMessage
    \/ UpdateMessageReplace
    \/ DeleteMessage

SpecAccess == InitAccess /\ [][NextAccess]_vars

\* the token and the topic a request can carry: absent, empty, or a value
BodyTokens == {NilStr, StrPtr("body.token", ""), StrPtr("body.token", "t1")}
BodyTopics == {NilStr, StrPtr("body.topic", ""), StrPtr("body.topic", "sports")}
PathTopics == {StrPtr("path.topic", ""), StrPtr("path.topic", "sports")}

HandleSubscribeBody ==
    \E p \in Procs, user \in RestRun.callers, token \in BodyTokens, topic \in BodyTopics :
        SubscribeBody(p, user, token, topic, RestRun)

HandleUnsubscribeBody ==
    \E p \in Procs, user \in RestRun.callers, token \in BodyTokens, topic \in BodyTopics :
        UnsubscribeBody(p, user, token, topic, RestRun)

HandleSubscribePath ==
    \E p \in Procs, user \in RestRun.callers, token \in BodyTokens, topic \in PathTopics :
        SubscribePath(p, user, token, topic, RestRun)

HandleUnsubscribePath ==
    \E p \in Procs, user \in RestRun.callers, token \in BodyTokens, topic \in PathTopics :
        UnsubscribePath(p, user, token, topic, RestRun)

\* the registration of the identity's device token by a request of its own
RegisterToken ==
    \E user \in RestRun.callers : storeFirebaseToken("t1", user.Email, RestRun)

\* Subscribe and Unsubscribe requests of two handlers, each running its core
\* call step by step, and registrations of the device token
NextRest ==
    \/ HandleSubscribeBody
    \/ HandleUnsubscribeBody
    \/ HandleSubscribePath
    \/ HandleUnsubscribePath
    \/ SubscribeGateway(RestRun)
    \/ UnsubscribeGateway(RestRun)
    \/ RegisterToken

SpecRest == Init /\ [][NextRest]_vars

\* the message the edits are about, created with no audience or for a topic
\* by the system, by an identity with an email or by one without
\* drafts without recipients, with or without a topic
PlainDrafts ==
    {Message(NilStr, <<>>, topic, NilSender) : topic \in {NilStr, StrPtr("body.topic", "sports")}}

CreatePlain ==
    \E p \in Procs, user \in Authors,
       message \in PlainDrafts :
        /\ nmsg = 0
        /\ createMessage(p, user, message)

UpdateMessage ==
    \E p \in Procs, user \in Editors, message \in Edits : updateMessage(p, user, message)

\* a message created, edited by two handlers and deleted, the edits and the
\* deletion also while its createMessage is at its broadcast
NextUpd ==
    \/ CreatePlain
    \/ CreateMessageBroadcast
    \/ UpdateMessage
    \/ UpdateMessageReplace
    \/ DeleteMessage

SpecUpd == Init /\ [][NextUpd]_vars

\* the methods of user.go on one User record that starts with no token and no
\* topic
NextUser ==
    \/ CallAddToken
    \/ CallRemoveToken
    \/ CallAddTopic
    \/ CallRemoveTopic

SpecUser == Init /\ [][NextUser]_vars

----------------------------------------------------------------------------
(* Claims about the subscription synchronizer *)

\* the calls of the synchronizer that have made at least their first step
SyncCalls == {ret} \cup {call[p] : p \in InFlight}

IsStoreCall(m) == m.fn \in {"storage.SubscribeToTopic", "storage.UnsubscribeToTopic"}
IsGatewayCall(m) == m.fn \in {"firebase.SubscribeToTopic", "firebase.UnsubscribeToTopic"}

AuthSubscribe(c) == c.op = "subscribe" /\ ~c.user.isNil

\* C1: in subscribeToTopic with an authenticated identity, every gateway
\* subscribe call comes after a store SubscribeToTopic call of the same core
\* call that returned success; when the store call fails, the core call
\* returns the store's error and its only call is that store call.
C1_GatewayOnlyAfterStoreSuccess ==
    \A c \in SyncCalls :
        AuthSubscribe(c) =>
            /\ \A i \in 1..Len(c.log) :
                  c.log[i].fn = "firebase.SubscribeToTopic" =>
                      \E j \in 1..(i - 1) :
                          c.log[j].fn = "storage.SubscribeToTopic" /\ c.log[j].ok
            /\ (c.log # <<>> /\ ~c.log[1].ok /\ c.log[1].fn = "storage.SubscribeToTopic") =>
                  /\ c = ret
                  /\ c.err = StoreErr
                  /\ Len(c.log) = 1

\* a subscribe whose store write failed has returned, while another handler's
\* subscribe has passed its store write and is about to call the gateway
C1_Witness ==
    /\ AuthSubscribe(ret)
    /\ ret.log = <<Made("storage.SubscribeToTopic", ret.token, ret.topic, FALSE)>>
    /\ ret.err = StoreErr
    /\ \E p \in Procs : pc[p] = "sub_gw" /\ call[p].log[1].ok

\* the step in which handler p's authenticated subscribe makes its gateway call
SubscribeGatewayStep(p) == pc[p] = "sub_gw" /\ pc'[p] = "idle"

\* C2: when the store write of an authenticated subscribeToTopic succeeded
\* and its gateway subscribe fails, the call returns the gateway's error, the
\* step of the failed gateway call leaves the store's User records and the
\* registries of the devices without identity as they are, and the call has
\* made no store call besides its one write.
C2_GatewayFailureKeepsStore ==
    [][\A p \in Procs :
          (SubscribeGatewayStep(p) /\ ~ret'.log[Len(ret'.log)].ok) =>
              /\ ret'.err = GatewayErr
              /\ users' = users
              /\ devices' = devices
              /\ Len(SelectSeq(ret'.log, IsStoreCall)) = 1
              /\ ret'.log[1] = Made("storage.SubscribeToTopic", ret'.token, ret'.topic, TRUE)]_vars

\* a subscribe has returned the gateway's error and its topic and token are
\* in the caller's stored record
C2_Witness ==
    /\ AuthSubscribe(ret)
    /\ Len(ret.log) = 2
    /\ ~ret.log[2].ok
    /\ ret.err = GatewayErr
    /\ Contains(users[ret.user.Email.val].Topics.elems, ret.topic)
    /\ Contains(users[ret.user.Email.val].Tokens.elems, ret.token)
    /\ <<ret.token, ret.topic>> \notin gateway

StoredTopics(e) == IF users[e].exists THEN users[e].Topics.elems ELSE <<>>
StoredTokens(e) == IF users[e].exists THEN users[e].Tokens.elems ELSE <<>>

\* C3 as stated: after Subscribe and Unsubscribe operations only, once no
\* operation is in flight, a token is subscribed to a topic at the gateway if
\* and only if the topic is in the stored topics of the User record that
\* holds the token (checked on the runs of SpecMirror: authenticated callers,
\* every call succeeds, handlers may interleave).
C3_AsStated ==
    (InFlight = {} /\ ~hist.registered) =>
        \A t \in DeviceTokens, topic \in Topics :
            (<<t, topic>> \in gateway) <=>
                \E e \in Identities :
                    Contains(StoredTokens(e), t) /\ Contains(StoredTopics(e), topic)

OneToOne(pairs) ==
    \A x \in pairs, y \in pairs : (x[1] = y[1]) <=> (x[2] = y[2])

\* C3 amended: on the runs of SpecMirror in which no two operations overlapped,
\* every token was used (subscribed, unsubscribed or registered) by one
\* identity and every identity used one token, once no operation is in
\* flight a token is subscribed to a topic at the gateway if and only if the
\* topic is in the stored topics of the User record of the identity that
\* used the token.
C3_MirrorWhenSerialOneToOne ==
    (InFlight = {} /\ ~hist.overlap /\ OneToOne(hist.pairs)) =>
        /\ \A x \in hist.pairs, topic \in Topics :
              (<<x[2], topic>> \in gateway) <=> Contains(StoredTopics(x[1]), topic)
        /\ \A x \in gateway : \E y \in hist.pairs : y[2] = x[1]

\* two identities, one token each, three operations one after the other: one
\* subscribed and unsubscribed again, the other still subscribed
C3_Witness ==
    /\ InFlight = {}
    /\ ~hist.overlap
    /\ OneToOne(hist.pairs)
    /\ Cardinality(hist.pairs) = 2
    /\ nops = MaxOps
    /\ ret.op = "unsubscribe"
    /\ Cardinality(gateway) = 1

\* C9 as stated: subscribeToTopic and unsubscribeToTopic called with no
\* identity and an empty token return an error.
C9_NoIdentityNoTokenFails ==
    (ret.op \in {"subscribe", "unsubscribe"} /\ ret.user.isNil /\ ret.token = "") =>
        ret.err # NilErr

\* the step in which a subscribeToTopic of an anonymous device with a token
\* starts and returns
AnonymousSubscribeStep ==
    /\ nops' # nops
    /\ pc' = pc
    /\ ret'.op = "subscribe"
    /\ ret'.user.isNil
    /\ ret'.token # ""

\* C10: subscribeToTopic with no identity and a non-empty token makes exactly
\* one call, the gateway subscribe for (token, topic), returns that call's
\* result, and leaves the store's User records and the registries of the
\* devices without identity unchanged; the gateway holds the subscription
\* exactly when the call succeeded or it held it before.
C10_AnonymousSkipsStore ==
    [][AnonymousSubscribeStep =>
          /\ Len(ret'.log) = 1
          /\ ret'.log[1].fn = "firebase.SubscribeToTopic"
          /\ ret'.log[1].token = ret'.token
          /\ ret'.log[1].topic = ret'.topic
          /\ ret'.err = ErrOf(ret'.log[1].ok, GatewayErr)
          /\ users' = users
          /\ devices' = devices
          /\ gateway' = IF ret'.log[1].ok
                        THEN gateway \cup {<<ret'.token, ret'.topic>>}
                        ELSE gateway]_vars

\* a device without identity that registered its token is subscribed at the
\* gateway, another such device subscribed earlier is not registered, and no
\* User record holds the token
C10_Witness ==
    /\ ret.op = "subscribe"
    /\ ret.user.isNil
    /\ ret.token # ""
    /\ ret.err = NilErr
    /\ <<ret.token, ret.topic>> \in gateway
    /\ ret.token \in devices
    /\ \E t \in DeviceTokens \ devices : \E topic \in Topics : <<t, topic>> \in gateway
    /\ \A e \in Identities : ~Contains(StoredTokens(e), ret.token)

----------------------------------------------------------------------------
(* Claims about the message fan-out engine *)

IsInsert(m) == m.fn = "storage.CreateMessage"
IsResolve(m) == m.fn = "storage.GetFirebaseTokensByRecipients"
IsSend(m) == m.fn = "firebase.SendNotificationToToken"
IsBroadcast(m) == m.fn = "firebase.SendNotificationToTopic"
IsDelivery(m) == IsSend(m) \/ IsBroadcast(m)

\* the createMessage call that returned last
Created == last.op = "createMessage"

\* the createMessage calls that have returned last or are in the middle of
\* their calls: the draft each was given and the calls it has made
CreateCalls ==
    {[message |-> c.message, log |-> c.log] :
        c \in {x \in {last} \cup {[y \in DOMAIN last |-> IF y = "result" THEN NilMessage
                                                       ELSE work[p][y]] : p \in Procs} :
                 x.op = "createMessage"}}

\* the message operation that begins in this step, a step that counts a
\* createMessage or an updateMessage: what it was given, the draft as it
\* left it, the calls it has made, and whether it goes on to a later call of
\* its own or has returned
Begun ==
    IF work' = work
    THEN [user |-> last'.user, message |-> last'.message, draft |-> last'.draft,
          log |-> last'.log, err |-> last'.err, goes |-> FALSE]
    ELSE LET w == work'[CHOOSE p \in Procs : work'[p] # work[p]]
         IN  [user |-> w.user, message |-> w.message, draft |-> w.draft,
              log |-> w.log, err |-> w.err, goes |-> TRUE]

\* C4 as stated: when the store's CreateMessage fails, createMessage makes no
\* gateway call, neither a per-token send nor a topic broadcast.
C4_NoDeliveryAfterFailedInsert ==
    (Created /\ \E i \in 1..Len(last.log) : IsInsert(last.log[i]) /\ ~last.log[i].ok) =>
        \A i \in 1..Len(last.log) : ~IsDelivery(last.log[i])

\* C5: createMessage with recipients, a successful insert and a successful
\* token resolution makes one send per token the resolution returned, in
\* order, whatever the sends return, and none for an empty list; it returns
\* the message its insert persisted, with an id and the draft's recipients,
\* and no error.
C5_OneSendPerTokenBestEffort ==
    (/\ Created
     /\ last.message.Recipients # <<>>
     /\ Len(last.log) >= 2
     /\ IsInsert(last.log[1]) /\ last.log[1].ok
     /\ IsResolve(last.log[2]) /\ last.log[2].ok) =>
        LET sends == SubSeq(last.log, 3, Len(last.log))
        IN  /\ Len(sends) = Len(last.tokens)
            /\ \A i \in 1..Len(sends) : IsSend(sends[i]) /\ sends[i].token = last.tokens[i]
            /\ last.err = NilErr
            /\ ~last.result.isNil
            /\ last.result = last.persisted
            /\ ~last.result.ID.isNil
            /\ last.result.Recipients = last.message.Recipients

\* the first of two sends failed and the second one was still made, to the
\* tokens the recipient had once a second device of it was registered
C5_Witness ==
    /\ Created
    /\ last.message.Recipients # <<>>
    /\ last.tokens = <<"t1", "t2">>
    /\ Len(last.log) = 4
    /\ IsSend(last.log[3]) /\ ~last.log[3].ok
    /\ IsSend(last.log[4])
    /\ last.err = NilErr
    /\ ~last.result.isNil

\* C6: createMessage on a draft it accepts, with no recipients and a topic,
\* issues exactly one topic broadcast, for that topic, and no per-token send;
\* when the broadcast fails it returns the broadcast's error and no message.
C6_OneBroadcastFailureSurfaces ==
    (/\ Created
     /\ last.message.ID.isNil
     /\ last.message.Recipients = <<>>
     /\ ~last.message.Topic.isNil) =>
        LET casts == SelectSeq(last.log, IsBroadcast)
        IN  /\ Len(casts) = 1
            /\ casts[1].topic = last.message.Topic.val
            /\ SelectSeq(last.log, IsSend) = <<>>
            /\ ~casts[1].ok => (last.err = BroadcastErr /\ last.result.isNil)

\* the insert succeeded, the broadcast failed, and the call returned the
\* broadcast's error
C6_Witness ==
    /\ Created
    /\ last.message.Recipients = <<>>
    /\ ~last.message.Topic.isNil
    /\ Len(last.log) = 2
    /\ IsInsert(last.log[1]) /\ last.log[1].ok
    /\ IsBroadcast(last.log[2]) /\ ~last.log[2].ok
    /\ last.err = BroadcastErr
    /\ last.result.isNil

\* C7: a createMessage on a draft without an id issues exactly one store
\* insert, made before its other calls, whatever the token resolution and
\* the delivery do; no call, returned or in the middle of its calls, issues
\* more than one, and the store holds at most one message per call.
C7_ExactlyOneInsert ==
    /\ \A c \in CreateCalls :
          /\ c.message.ID.isNil => Len(SelectSeq(c.log, IsInsert)) = 1
          /\ Len(SelectSeq(c.log, IsInsert)) <= 1
    /\ Len(messages) <= nmsg

\* a call whose token resolution failed after its insert, while the other
\* handler's call is between its insert and its broadcast: one insert each
C7_Witness ==
    /\ Created
    /\ last.message.ID.isNil
    /\ Len(last.log) = 2
    /\ IsInsert(last.log[1]) /\ last.log[1].ok
    /\ IsResolve(last.log[2]) /\ ~last.log[2].ok
    /\ last.err = ResolveErr
    /\ \E p \in Procs : work[p].at = "broadcast" /\ work[p].log[1].ok
    /\ Len(messages) = 2

\* the step of a createMessage on a draft whose id is set
CreateWithIDStep ==
    /\ nmsg' # nmsg
    /\ work' = work
    /\ last'.op = "createMessage"
    /\ ~last'.message.ID.isNil

\* C8: createMessage on a draft whose id is set returns an error and no
\* message, makes no call (no insert, no token resolution, no gateway call),
\* leaves the store and the gateway as they are, and leaves the draft, its
\* sender included, as it was.
C8_DraftWithIDRejected ==
    [][/\ CreateWithIDStep =>
            /\ last'.err # NilErr
            /\ last'.result.isNil
            /\ last'.log = <<>>
            /\ last'.draft = last'.message
            /\ messages' = messages
            /\ users' = users
            /\ gateway' = gateway
       /\ \A p \in Procs : work'[p].op = "createMessage" => work'[p].message.ID.isNil]_vars

\* an authenticated caller's draft with an id, recipients and a topic and no
\* sender was rejected, its sender still unset
C8_Witness ==
    /\ Created
    /\ ~last.message.ID.isNil
    /\ ~last.user.isNil
    /\ last.message.Recipients # <<>>
    /\ ~last.message.Topic.isNil
    /\ last.draft.Sender.isNil
    /\ last.err = AlreadySentErr
    /\ messages = <<>>

----------------------------------------------------------------------------
(* Claims about unsubscribeToTopic *)

AuthUnsubscribe(c) == c.op = "unsubscribe" /\ ~c.user.isNil

\* the step in which handler p's authenticated unsubscribe makes its gateway call
UnsubscribeGatewayStep(p) == pc[p] = "unsub_gw" /\ pc'[p] = "idle"

\* the step in which handler p's authenticated unsubscribe makes its store
\* call and goes on
UnsubscribeStoreStep(p) == pc[p] = "idle" /\ pc'[p] = "unsub_gw"

\* the step in which an authenticated unsubscribe starts and returns at once
UnsubscribeAbortStep == nops' # nops /\ pc' = pc /\ AuthUnsubscribe(ret')

\* C11: unsubscribeToTopic with an authenticated identity calls the store
\* first and leaves the gateway alone in that step; it goes on to the gateway
\* only when the store removal succeeded; when the store call fails it
\* returns the store's error with the store call as its only call; its
\* gateway unsubscribe comes second, after the successful store removal, its
\* error is returned, and the step of the gateway call leaves the store's
\* User records as the removal left them.
C11_UnsubscribeStoreThenGateway ==
    [][\A p \in Procs :
          /\ UnsubscribeStoreStep(p) =>
                /\ call'[p].log = <<Made("storage.UnsubscribeToTopic",
                                          call'[p].token, call'[p].topic, TRUE)>>
                /\ gateway' = gateway
          /\ UnsubscribeAbortStep =>
                /\ ret'.log = <<Made("storage.UnsubscribeToTopic",
                                      ret'.token, ret'.topic, FALSE)>>
                /\ ret'.err = StoreErr
                /\ gateway' = gateway
                /\ users' = users
          /\ UnsubscribeGatewayStep(p) =>
                /\ Len(ret'.log) = 2
                /\ ret'.log[1] = Made("storage.UnsubscribeToTopic",
                                      ret'.token, ret'.topic, TRUE)
                /\ ret'.log[2].fn = "firebase.UnsubscribeToTopic"
                /\ ret'.log[2].token = ret'.token
                /\ ret'.log[2].topic = ret'.topic
                /\ ret'.err = ErrOf(ret'.log[2].ok, GatewayErr)
                /\ users' = users]_vars

\* an unsubscribe has returned the gateway's error: the topic and the token
\* are gone from the caller's stored record and the gateway still holds the
\* subscription
C11_Witness ==
    /\ AuthUnsubscribe(ret)
    /\ Len(ret.log) = 2
    /\ ret.log[1].ok
    /\ ~ret.log[2].ok
    /\ ret.err = GatewayErr
    /\ users[ret.user.Email.val].exists
    /\ ~Contains(StoredTopics(ret.user.Email.val), ret.topic)
    /\ ~Contains(StoredTokens(ret.user.Email.val), ret.token)
    /\ <<ret.token, ret.topic>> \in gateway

----------------------------------------------------------------------------
(* Claims about concurrent and repeated subscribes *)

\* the step in which handler p's authenticated subscribe makes its store
\* call and goes on
SubscribeStoreStep(p) == pc[p] = "idle" /\ pc'[p] = "sub_gw"

\* every element of sequence s is in sequence t
Keeps(s, t) == \A i \in 1..Len(s) : Contains(t, s[i])

\* C15: the successful store write of a subscribeToTopic, whatever the other
\* handler is in the middle of, leaves in the identity's stored tokens and
\* topics everything that was there, adds its own token and topic, and leaves
\* the other identities' records alone; the gateway step of a subscribe does
\* not touch the records. So after two concurrent subscribes of one identity
\* the record holds the additions of both.
C15_NoLostAddition ==
    [][\A p \in Procs :
          /\ SubscribeStoreStep(p) =>
                LET e == call'[p].user.Email.val
                IN  /\ users'[e].exists
                    /\ Keeps(StoredTokens(e), users'[e].Tokens.elems)
                    /\ Keeps(StoredTopics(e), users'[e].Topics.elems)
                    /\ Contains(users'[e].Tokens.elems, call'[p].token)
                    /\ Contains(users'[e].Topics.elems, call'[p].topic)
                    /\ \A o \in Identities \ {e} : users'[o] = users[o]
          /\ SubscribeGatewayStep(p) => users' = users]_vars

\* both handlers are between the store write and the gateway call of a
\* subscribe of the same identity, with different tokens and different
\* topics, and the record holds both tokens and both topics
C15_Witness ==
    /\ pc = [p \in Procs |-> "sub_gw"]
    /\ call["h1"].user = call["h2"].user
    /\ call["h1"].token # call["h2"].token
    /\ call["h1"].topic # call["h2"].topic
    /\ \A p \in Procs :
          /\ Contains(StoredTokens(call[p].user.Email.val), call[p].token)
          /\ Contains(StoredTopics(call[p].user.Email.val), call[p].topic)

\* the step in which an authenticated subscribe starts and returns at once
SubscribeAbortStep == nops' # nops /\ pc' = pc /\ AuthSubscribe(ret')

\* C16: a subscribeToTopic for an identity whose stored record already holds
\* the token and the topic (as after a subscribe whose gateway call failed)
\* leaves the stored records unchanged when its store write succeeds; a
\* subscribe returns without a gateway call only when its store write
\* failed, so the gateway subscribe is made again; and when that call
\* succeeds the gateway holds the subscription, the records are untouched
\* and the call returns no error.
C16_RepeatedSubscribeHeals ==
    [][\A p \in Procs :
          /\ SubscribeStoreStep(p) =>
                LET e == call'[p].user.Email.val
                IN  (/\ Contains(StoredTokens(e), call'[p].token)
                     /\ Contains(StoredTopics(e), call'[p].topic)) => users' = users
          /\ SubscribeAbortStep =>
                ret'.log = <<Made("storage.SubscribeToTopic", ret'.token, ret'.topic, FALSE)>>
          /\ (SubscribeGatewayStep(p) /\ ret'.log[Len(ret'.log)].ok) =>
                /\ ret'.log[Len(ret'.log)].fn = "firebase.SubscribeToTopic"
                /\ <<ret'.token, ret'.topic>> \in gateway'
                /\ users' = users
                /\ ret'.err = NilErr]_vars

\* two subscribes of the same identity, token and topic, one after the other:
\* the first left the store ahead of the gateway, the second has returned
\* with no error, the gateway holds the subscription and the record holds the
\* token and the topic once
C16_Witness ==
    /\ nops = 2
    /\ ~hist.overlap
    /\ InFlight = {}
    /\ AuthSubscribe(ret)
    /\ ret.err = NilErr
    /\ <<ret.user.Email.val, ret.token, ret.topic>> \in hist.drift
    /\ <<ret.token, ret.topic>> \in gateway
    /\ StoredTokens(ret.user.Email.val) = <<ret.token>>
    /\ StoredTopics(ret.user.Email.val) = <<ret.topic>>

----------------------------------------------------------------------------
(* Claims about the methods of user.go *)

NoDuplicates(s) == \A i, j \in 1..Len(s) : s[i] = s[j] => i = j

\* the step that applies a method of user.go with these arguments
AppliedStep(method) == nuser' # nuser /\ applied'.method = method

\* C12: AddToken(t) leaves t in the tokens list, and applied to a record whose
\* tokens list already holds t it leaves the tokens list exactly as it was
\* (same length, same elements, same order); likewise AddTopic(p) and the
\* topics list; neither touches the other list. So a second AddToken(t) and
\* AddTopic(p) change nothing.
C12_AddIsIdempotent ==
    [][/\ AppliedStep("AddToken") =>
            /\ Contains(urec'.Tokens.elems, applied'.arg)
            /\ Contains(urec.Tokens.elems, applied'.arg) => urec'.Tokens = urec.Tokens
            /\ urec'.Topics = urec.Topics
       /\ AppliedStep("AddTopic") =>
            /\ Contains(urec'.Topics.elems, applied'.arg)
            /\ Contains(urec.Topics.elems, applied'.arg) => urec'.Topics = urec.Topics
            /\ urec'.Tokens = urec.Tokens]_vars

\* AddToken was applied to a record that already held the token next to
\* another one, and the record is as it was
C12_Witness ==
    /\ applied.method = "AddToken"
    /\ Contains(applied.before.Tokens.elems, applied.arg)
    /\ Len(applied.before.Tokens.elems) = 2
    /\ Len(applied.before.Topics.elems) = 1
    /\ urec = applied.before

\* C13: starting from a User with no tokens and no topics, after any
\* sequence of AddToken, RemoveToken, AddTopic and RemoveTopic calls no value
\* is twice in the tokens list and no value is twice in the topics list.
C13_NoDuplicates ==
    /\ NoDuplicates(urec.Tokens.elems)
    /\ NoDuplicates(urec.Topics.elems)

\* two tokens and two topics are in the lists after five calls, one of them
\* a repeated AddTopic
C13_Witness ==
    /\ nuser = MaxUserOps
    /\ Len(urec.Tokens.elems) = 2
    /\ Len(urec.Topics.elems) = 2
    /\ applied.method = "AddTopic"
    /\ Contains(applied.before.Topics.elems, applied.arg)

\* C14: RemoveToken(t) applied to a record whose tokens list does not hold t
\* leaves the tokens list as it was, elements and order, a nil list nil and
\* an empty list empty; likewise RemoveTopic(p) and the topics list; neither
\* touches the other list.
C14_RemoveAbsentIsNoOp ==
    [][/\ AppliedStep("RemoveToken") =>
            /\ ~Contains(urec.Tokens.elems, applied'.arg) => urec'.Tokens = urec.Tokens
            /\ urec'.Topics = urec.Topics
       /\ AppliedStep("RemoveTopic") =>
            /\ ~Contains(urec.Topics.elems, applied'.arg) => urec'.Topics = urec.Topics
            /\ urec'.Tokens = urec.Tokens]_vars

\* RemoveToken of an absent token was applied to a record with two tokens,
\* and the list is as it was
C14_Witness ==
    /\ applied.method = "RemoveToken"
    /\ ~Contains(applied.before.Tokens.elems, applied.arg)
    /\ Len(applied.before.Tokens.elems) = 2
    /\ urec = applied.before

----------------------------------------------------------------------------
(* Claims about updateMessage *)

\* the step in which an updateMessage call begins: its store's GetMessage
\* and its creator check
UpdateStep == nupd' # nupd

\* the step in which an updateMessage call makes its store's UpdateMessage
ReplaceStep == \E p \in Procs : work[p].at = "update" /\ work'[p].at = "idle"

\* the record the call of this step is about is in the store, and the
\* store's GetMessage returned it
RecordFetched ==
    /\ ~Begun.message.ID.isNil
    /\ HasID(messages, Begun.message.ID.val)
    /\ Begun.log # <<>>
    /\ Begun.log[1].ok

\* the sender of the record the call of this step is about
OriginalSender == messages[IndexOf(messages, Begun.message.ID.val)].Sender

\* two identities are the same when their uin and their email are, by value
SameIdentity(u, v) ==
    /\ ~u.isNil /\ ~v.isNil
    /\ u.Uin.isNil = v.Uin.isNil /\ u.Uin.val = v.Uin.val
    /\ u.Email.isNil = v.Email.isNil /\ u.Email.val = v.Email.val

\* C17 as stated: an updateMessage by an identity other than the original
\* sender of the stored message, a message sent by the system included,
\* returns an error from its creator check, does not go on to the store's
\* UpdateMessage and leaves the stored messages unchanged.
C17_OtherIdentityRejected ==
    [][(/\ UpdateStep
        /\ ~Begun.user.isNil
        /\ RecordFetched
        /\ ~SameIdentity(Begun.user, OriginalSender.User)) =>
            /\ ~Begun.goes
            /\ Begun.err # NilErr
            /\ messages' = messages]_vars

\* C18: updateMessage on a message without id, or with an id no stored
\* record has when its GetMessage is made, returns the error "missing id or
\* record" and no message, without going on to the store's UpdateMessage and
\* without changing the store; when the record is there and was fetched and
\* the call refuses the caller, the error is another one, "only creator can
\* update the original message".
C18_MissingIsNotFound ==
    [][UpdateStep =>
          /\ (Begun.message.ID.isNil \/ ~HasID(messages, Begun.message.ID.val)) =>
                /\ ~Begun.goes
                /\ Begun.err = ErrMissing
                /\ last'.result.isNil
                /\ \A i \in 1..Len(Begun.log) : Begun.log[i].fn = "storage.GetMessage"
                /\ messages' = messages
          /\ (RecordFetched /\ ~Begun.goes /\ Begun.err # Panic) =>
                /\ Begun.err = ErrNotCreator
                /\ Begun.err # ErrMissing]_vars

\* an update of an id that no record has was answered "missing id or
\* record" after one GetMessage that returned no record and no error, with a
\* message in the store
C18_Witness ==
    /\ last.op = "updateMessage"
    /\ ~last.message.ID.isNil
    /\ ~HasID(messages, last.message.ID.val)
    /\ messages # <<>>
    /\ last.log = <<Made("storage.GetMessage", "-", "-", TRUE)>>
    /\ last.err = ErrMissing
    /\ last.result.isNil

\* C19 as stated: an updateMessage by the identity that created the message
\* (its email equal to the email of the sender stored with the message)
\* passes the authorization check and goes on to the store's UpdateMessage,
\* whose result it returns.
C19_CreatorPassesAuthorization ==
    [][/\ (/\ UpdateStep
           /\ ~Begun.user.isNil
           /\ RecordFetched
           /\ ~OriginalSender.User.isNil
           /\ ~Begun.user.Email.isNil
           /\ ~OriginalSender.User.Email.isNil
           /\ Begun.user.Email.val = OriginalSender.User.Email.val) => Begun.goes
       /\ ReplaceStep =>
             \E p \in Procs :
                /\ work[p].at = "update"
                /\ work'[p].at = "idle"
                /\ LET made == last'.log[Len(last'.log)]
                       upd == StorageUpdateMessage(messages, work[p].message, made.ok)
                   IN  /\ made.fn = "storage.UpdateMessage"
                       /\ last'.result = upd.result
                       /\ last'.err = upd.err
                       /\ messages' = upd.stored]_vars

\* the updateMessage calls as this step leaves them, returned or about to
\* make their UpdateMessage
UpdateCalls ==
    {c \in {[log |-> last'.log, op |-> last'.op]}
             \cup {[log |-> work'[p].log, op |-> work'[p].op] : p \in Procs} :
        c.op = "updateMessage"}

\* C20: an updateMessage call, whatever its path, makes no call but the
\* store's GetMessage and UpdateMessage, no per-token send and no topic
\* broadcast, and none of its steps changes the gateway's subscriptions.
C20_UpdateNeverDelivers ==
    [][(UpdateStep \/ ReplaceStep) =>
          /\ \A c \in UpdateCalls : \A i \in 1..Len(c.log) :
                /\ ~IsDelivery(c.log[i])
                /\ c.log[i].fn \in {"storage.GetMessage", "storage.UpdateMessage"}
          /\ gateway' = gateway]_vars

\* an update went through: the stored message has the edit's subject and
\* recipients, and the call made a GetMessage and an UpdateMessage
C20_Witness ==
    /\ last.op = "updateMessage"
    /\ last.err = NilErr
    /\ ~last.result.isNil
    /\ Len(last.log) = 2
    /\ last.log[2] = Made("storage.UpdateMessage", "-", "-", TRUE)
    /\ messages # <<>>
    /\ messages[1].Subject = "edited"
    /\ messages[1].Recipients # <<>>
    /\ gateway = {}

----------------------------------------------------------------------------
(* Claims about the audience, the errors and the sender of createMessage *)

Accepted == Created /\ last.message.ID.isNil

\* the step in which a createMessage on a draft without an id begins: the
\* sender stamped and the store's insert
InsertStep == nmsg' # nmsg /\ Begun.message.ID.isNil

\* C22: createMessage on a draft with no recipient and no topic makes the
\* store's insert and no other call, neither a token resolution nor a
\* gateway call, and returns from it; when the insert succeeds it returns no
\* error and the persisted message, which is the draft with its sender
\* stamped and the store's id, and the store holds it after the messages it
\* held.
C22_NoAudienceMakesNoCall ==
    [][(/\ InsertStep
        /\ Begun.message.Recipients = <<>>
        /\ Begun.message.Topic.isNil) =>
            /\ ~Begun.goes
            /\ Len(last'.log) = 1
            /\ IsInsert(last'.log[1])
            /\ \A i \in 1..Len(last'.log) :
                  ~IsDelivery(last'.log[i]) /\ ~IsResolve(last'.log[i])
            /\ gateway' = gateway
            /\ last'.log[1].ok =>
                  /\ last'.err = NilErr
                  /\ ~last'.result.isNil
                  /\ ~last'.result.ID.isNil
                  /\ messages' = Append(messages, last'.result)
                  /\ last'.result = [last'.draft EXCEPT !.ID = last'.result.ID]]_vars

\* a draft with no audience was persisted and returned after one insert,
\* while the other handler's createMessage is between its insert and its
\* token resolution
C22_Witness ==
    /\ Accepted
    /\ last.message.Recipients = <<>>
    /\ last.message.Topic.isNil
    /\ last.log = <<Made("storage.CreateMessage", "-", "-", TRUE)>>
    /\ last.err = NilErr
    /\ Len(messages) = 2
    /\ messages[2] = last.result
    /\ \E p \in Procs : work[p].at = "resolve"
    /\ gateway = {}

\* C23: a createMessage call, returned or in the middle of its calls, never
\* makes both a per-token send and a topic broadcast; on a draft with
\* recipients it makes no broadcast, also when the draft has a topic and
\* when the recipients resolve to no token.
C23_AudienceIsExclusive ==
    \A c \in CreateCalls :
        /\ ~(/\ \E i \in 1..Len(c.log) : IsSend(c.log[i])
             /\ \E i \in 1..Len(c.log) : IsBroadcast(c.log[i]))
        /\ c.message.Recipients # <<>> =>
              \A i \in 1..Len(c.log) : ~IsBroadcast(c.log[i])

\* a draft with a recipient and a topic, the recipient resolving to no
\* token: an insert and a resolution, no send and no broadcast, no error
C23_Witness ==
    /\ Accepted
    /\ last.message.Recipients # <<>>
    /\ ~last.message.Topic.isNil
    /\ last.tokens = <<>>
    /\ Len(last.log) = 2
    /\ IsInsert(last.log[1]) /\ last.log[1].ok
    /\ IsResolve(last.log[2]) /\ last.log[2].ok
    /\ last.err = NilErr

\* C24 as stated: when the store's insert or the store's token resolution
\* fails inside createMessage, the call returns an error, whatever the
\* gateway calls made after it return; after a failed token resolution no
\* send is made.
C24_StoreFailureSurfaces ==
    Accepted =>
        /\ (\E i \in 1..Len(last.log) :
               (IsInsert(last.log[i]) \/ IsResolve(last.log[i])) /\ ~last.log[i].ok)
              => last.err # NilErr
        /\ (\E i \in 1..Len(last.log) : IsResolve(last.log[i]) /\ ~last.log[i].ok)
              => \A i \in 1..Len(last.log) : ~IsSend(last.log[i])

\* C25 as stated: the sender createMessage stamps is, with an acting
\* identity, of type user with a copy of every field of that identity, and
\* without one of type system with no user, whatever the draft's sender was.
C25_SenderIsTheIdentity ==
    Accepted =>
        /\ last.draft.Sender = IF last.user.isNil THEN Sender("system", NilUser)
                               ELSE Sender("user", last.user)
        /\ last.log[1].ok => last.persisted.Sender = last.draft.Sender

\* C25: the sender createMessage stamps before the insert replaces the
\* draft's sender: with an acting identity it has type user and that
\* identity's uin, email and phone, and no membership; without one it has
\* type system and no user. The persisted and the returned message carry it.
C25_SenderIsStamped ==
    Accepted =>
        /\ ~last.draft.Sender.isNil
        /\ last.user.isNil =>
              /\ last.draft.Sender.Type = "system"
              /\ last.draft.Sender.User.isNil
        /\ ~last.user.isNil =>
              /\ last.draft.Sender.Type = "user"
              /\ ~last.draft.Sender.User.isNil
              /\ last.draft.Sender.User.Uin = last.user.Uin
              /\ last.draft.Sender.User.Email = last.user.Email
              /\ last.draft.Sender.User.Phone = last.user.Phone
              /\ last.draft.Sender.User.Membership = NilSlice
        /\ last.log[1].ok => last.persisted.Sender = last.draft.Sender
        /\ ~last.result.isNil => last.result.Sender = last.draft.Sender

\* a draft that came with a sender of its own was persisted with the acting
\* identity as its sender, and the store holds it so
C25_Witness ==
    /\ Accepted
    /\ ~last.message.Sender.isNil
    /\ ~last.user.isNil
    /\ last.message.Sender.User.Email # last.user.Email
    /\ ~last.persisted.isNil
    /\ \E i \in 1..Len(messages) : messages[i] = last.persisted
    /\ last.persisted.Sender.Type = "user"
    /\ last.persisted.Sender.User.Email = last.user.Email
    /\ ~last.user.Membership.isNil
    /\ last.persisted.Sender.User.Membership.isNil

\* C28 as stated: createMessage returns a message exactly when it returns no
\* error, whatever the insert, the token resolution and the gateway calls
\* return.
C28_MessageIffNoError ==
    Created => (~last.result.isNil <=> last.err = NilErr)

\* the step in which a createMessage makes a call after its insert
AfterInsertStep(p) ==
    /\ work[p].op = "createMessage"
    /\ work[p].at # "idle"
    /\ work'[p] # work[p]

\* C29: a createMessage whose insert succeeded puts the message in the
\* store, after the messages that were there, and no later call of it, the
\* one that fails included, changes the store: it makes no call but the
\* insert, the resolution, the sends and the broadcast. When it has returned
\* the error of its token resolution or of its broadcast and its caller
\* calls again with the same draft and the insert succeeds again, the store
\* gets a second message that differs from the first in its id only.
C29_FailedDeliveryKeepsMessage ==
    [][/\ (InsertStep /\ Begun.log[1].ok) =>
            /\ messages' = Append(messages, [Begun.draft EXCEPT !.ID = NewID(nmsg + 1)])
            /\ (/\ last.op = "createMessage"
                /\ last.err \in {BroadcastErr, ResolveErr}
                /\ last.log[1].ok
                /\ Begun.message = last.message
                /\ Begun.user = last.user) =>
                  /\ messages'[Len(messages')].ID # last.persisted.ID
                  /\ [messages'[Len(messages')] EXCEPT !.ID = NilStr]
                        = [last.persisted EXCEPT !.ID = NilStr]
                  /\ HasID(messages, last.persisted.ID.val) => Len(messages') >= 2
       /\ \A p \in Procs : AfterInsertStep(p) =>
            /\ messages' = messages
            /\ (work'[p].at = "idle" /\ last'.err \in {BroadcastErr, ResolveErr}) =>
                  \A i \in 1..Len(last'.log) :
                     IsInsert(last'.log[i]) \/ IsResolve(last'.log[i])
                        \/ IsDelivery(last'.log[i])]_vars

\* a broadcast failed twice, at the call and at its retry: the store holds
\* the message twice, under two ids
C29_Witness ==
    /\ nmsg = 2
    /\ Created
    /\ last.err = BroadcastErr
    /\ Len(messages) = 2
    /\ messages[1].ID # messages[2].ID
    /\ [messages[1] EXCEPT !.ID = NilStr] = [messages[2] EXCEPT !.ID = NilStr]
    /\ messages[1].Topic.val = "sports"

----------------------------------------------------------------------------
(* Claims about standing on a message and the reads that depend on it *)

\* the identity is the sender of m, by value
IsSenderOf(m, user) == ~m.Sender.isNil /\ SameIdentity(user, m.Sender.User)

\* the identity's id is the user id of a recipient of m, by value
IsRecipientOf(m, user) ==
    /\ ~user.isNil
    /\ ~user.Email.isNil
    /\ \E i \in 1..Len(m.Recipients) :
          /\ ~m.Recipients[i].UserID.isNil
          /\ m.Recipients[i].UserID.val = user.Email.val

HasUserStep == reply' # reply /\ reply'.op = "HasUser"

\* C21 as stated: HasUser on a message and an identity answers true exactly
\* when the identity is the message's sender or its id is the user id of one
\* of the message's recipients, answers false for an absent identity, and
\* leaves the message as it was.
C21_HasUserIffSenderOrRecipient ==
    [][HasUserStep =>
          /\ reply'.has <=> (IsSenderOf(reply'.message, reply'.user)
                             \/ IsRecipientOf(reply'.message, reply'.user))
          /\ reply'.user.isNil => ~reply'.has
          /\ messages' = messages]_vars

GetMessageStep == reply' # reply /\ reply'.op = "GetMessage"

\* C27 as stated: the GetMessage handler writes a message's content only with
\* status 200 and only when HasUser answered true for the stored message and
\* the caller; when the store has no record with the id, or the caller has no
\* standing on the record (HasUser did not answer true), it answers 404 Not
\* Found and writes no content; when the store's GetMessage fails it answers
\* 500 and writes no content. It leaves the store as it was.
C27_ContentOnlyWithStanding ==
    [][GetMessageStep =>
          /\ ~reply'.content.isNil =>
                /\ reply'.status = StatusOK
                /\ HasID(messages, reply'.id)
                /\ reply'.content = DecodedMessage(messages[IndexOf(messages, reply'.id)])
                /\ HasUser(reply'.content, reply'.user) = [has |-> TRUE, err |-> NilErr]
          /\ (reply'.id # "" /\ reply'.log[1].ok) =>
                /\ ~HasID(messages, reply'.id) =>
                      reply'.status = StatusNotFound /\ reply'.content.isNil
                /\ (/\ HasID(messages, reply'.id)
                    /\ HasUser(DecodedMessage(messages[IndexOf(messages, reply'.id)]),
                               reply'.user) # [has |-> TRUE, err |-> NilErr]) =>
                      reply'.status = StatusNotFound /\ reply'.content.isNil
          /\ (reply'.id # "" /\ ~reply'.log[1].ok) =>
                reply'.status = StatusInternalServerError /\ reply'.content.isNil
          /\ reply'.status # StatusOK => reply'.content.isNil
          /\ messages' = messages]_vars

\* C30 as stated: no read, removal or update of a message ends in a nil
\* dereference, whether the acting identity or the message's sender is
\* absent.
C30_NoNilDereference ==
    /\ reply.err # Panic
    /\ last.err # Panic

----------------------------------------------------------------------------
(* Claims about the Subscribe and Unsubscribe request handlers *)

\* C26 as stated: a Subscribe or Unsubscribe request whose token or topic is
\* empty is answered Bad Request, and makes no call to the store or to the
\* gateway: the core operation is not invoked for it.
C26_EmptyTokenOrTopicIsRefused ==
    (/\ reply.op \in {"Subscribe", "Unsubscribe"}
     /\ ~reply.token.isNil /\ ~reply.topic.isNil
     /\ (reply.token.val = "" \/ reply.topic.val = "")) =>
        /\ reply.status = StatusBadRequest
        /\ reply.log = <<>>

====
